---- MODULE Spec2Model ----
(***************************************************************************)
(* Model of gc_query_module.py: inference of the number of alleles from    *)
(* the length of a GC (genotype count) list, and the two lookups of the    *)
(* GC positions that belong to an alternative allele.                      *)
(*                                                                         *)
(* Python values are records [kind, val]; a Python string is the sequence  *)
(* of its character codes; a Python list is a sequence read with 0-based   *)
(* indices through At.  The outcome of a call is a record whose status is  *)
(* "pending" (not called yet), "returned", "ValueError" or "IndexError".   *)
(***************************************************************************)
EXTENDS Integers, Sequences, FiniteSets

VARIABLES gc_len, infer_out, num_alleles, alt_idx, full_out, limited_out

vars == <<gc_len, infer_out, num_alleles, alt_idx, full_out, limited_out>>

(* ------------------------------ bounds --------------------------------- *)

\* largest GC list length handed to get_num_of_alleles_from_gc
MaxGcLen == 60

\* largest integer handed to the lookups as num_alleles or alt_idx
MaxArg == 28

(* --------------------------- Python values ----------------------------- *)

IntVal(n) == [kind |-> "int", val |-> n]

\* bool is a subclass of int: True is 1 and False is 0
BoolVal(b) == [kind |-> "bool", val |-> b]

\* the float n.0
FloatVal(n) == [kind |-> "float", val |-> n]

StrVal == [kind |-> "str", val |-> 0]

NoneVal == [kind |-> "none", val |-> 0]

\* isinstance(v, int)
isinstance_int(v) == v.kind \in {"int", "bool"}

\* the arguments a caller may hand to the lookups
ArgValues ==
    {IntVal(n) : n \in -1..MaxArg} \cup {BoolVal(b) : b \in {0, 1}}
        \cup {FloatVal(n) : n \in {0, 1, 2, 3}} \cup {StrVal, NoneVal}

\* list[i] with a 0-based index
At(list, i) == list[i + 1]

\* s[::-1]
RECURSIVE Reversed(_)
Reversed(s) == IF s = <<>> THEN <<>> ELSE Append(Reversed(Tail(s)), Head(s))

\* sub in s, for strings
IsSubstring(sub, s) ==
    \E k \in 0..(Len(s) - Len(sub)) : SubSeq(s, k + 1, k + Len(sub)) = sub

\* x in list
InList(x, list) == \E k \in 1..Len(list) : list[k] = x

(* ------------------- get_num_of_alleles_from_gc ------------------------ *)

Pending == [status |-> "pending"]

\* for i in range(1, gc_len): sum += i; if sum == gc_len: return i
\* falling off the end of the loop returns None
RECURSIVE infer_loop(_, _, _)
infer_loop(len, i, sum) ==
    IF i >= len THEN NoneVal
    ELSE IF sum + i = len THEN IntVal(i)
    ELSE infer_loop(len, i + 1, sum + i)

\* a loop that remembers the last i and returns it when nothing matched
RECURSIVE infer_loop_last(_, _, _)
infer_loop_last(len, i, sum) ==
    IF i >= len THEN IntVal(i - 1)
    ELSE IF sum + i = len THEN IntVal(i)
    ELSE infer_loop_last(len, i + 1, sum + i)

get_num_of_alleles_from_gc_last(len) ==
    [status |-> "returned", value |-> infer_loop_last(len, 1, 0)]

get_num_of_alleles_from_gc(len) ==
    [status |-> "returned", value |-> infer_loop(len, 1, 0)]

(* ------------------------- the label table ----------------------------- *)

\* range(65, 91): the character codes of 'A' .. 'Z'
ORD_FIRST == 65

ORD_STOP == 91

\* generic_allele_lookup_table = list(map(chr, range(65, 91)))
generic_allele_lookup_table ==
    [k \in 1..(ORD_STOP - ORD_FIRST) |-> <<ORD_FIRST + k - 1>>]

\* the literal 'A'
LITERAL_A == <<65>>

IndexError == [status |-> "IndexError"]

ValueError(msg) == [status |-> "ValueError", msg |-> msg]

\* does generic_allele_lookup_table[i] raise IndexError (i is never negative here)
OutOfTable(i) == i >= Len(generic_allele_lookup_table)

(* ------------------- get_gc_indices_for_alt_allele --------------------- *)

\* the check with the last comparison off by one
gc_sanity_check_loose(num, alt) ==
    IF (~isinstance_int(num)) \/ num.val < 2
        THEN "num_alleles must be integer >= 2"
    ELSE IF (~isinstance_int(alt)) \/ alt.val < 0
        THEN "alt_idx must be non negative integer"
    ELSE IF alt.val > num.val - 1
        THEN "alt_idx must be <= (num_alleles - 2)"
    ELSE ""

\* the sanity check for input arguments: the message of the ValueError raised,
\* or "" when the arguments pass
gc_sanity_check(num, alt) ==
    IF (~isinstance_int(num)) \/ num.val < 2
        THEN "num_alleles must be integer >= 2"
    ELSE IF (~isinstance_int(alt)) \/ alt.val < 0
        THEN "alt_idx must be non negative integer"
    ELSE IF alt.val > num.val - 2
        THEN "alt_idx must be <= (num_alleles - 2)"
    ELSE ""

\* the alt allele looked up one position too low
gc_allele_idx_low(alt) == alt

\* allele_idx = alt_idx + 1
gc_allele_idx(alt) == alt + 1

\* an inner loop that stops before the diagonal
gc_inner_stop_short(i) == i

\* for j in range(i+1): the stop value of the inner loop
gc_inner_stop(i) == i + 1

\* table[i] + table[j], then reversed
gc_ref_alt_pair(i, j) ==
    Reversed(At(generic_allele_lookup_table, i) \o At(generic_allele_lookup_table, j))

\* the inner loop over j of row i: appends one pair per j
RECURSIVE gc_inner_loop(_, _, _)
gc_inner_loop(i, j, cur) ==
    IF j >= gc_inner_stop(i) THEN [raised |-> FALSE, list |-> cur]
    ELSE IF OutOfTable(i) \/ OutOfTable(j) THEN [raised |-> TRUE, list |-> cur]
    ELSE gc_inner_loop(i, j + 1, Append(cur, gc_ref_alt_pair(i, j)))

\* for i in range(num_alleles): the outer loop building cur_pairs_list
RECURSIVE gc_outer_loop(_, _, _)
gc_outer_loop(num, i, cur) ==
    IF i >= num THEN [raised |-> FALSE, list |-> cur]
    ELSE LET row == gc_inner_loop(i, 0, cur)
         IN  IF row.raised THEN row ELSE gc_outer_loop(num, i + 1, row.list)

\* a match on the first character only
gc_contains_first(alt_allele, s) == SubSeq(s, 1, Len(alt_allele)) = alt_allele

\* alt_allele in s
gc_contains(alt_allele, s) == IsSubstring(alt_allele, s)

\* enumerate(list): the 0-based indices of list, in list order
Enumerate(list) == [k \in 1..Len(list) |-> k - 1]

\* [i for i,s in enumerate(cur_pairs_list) if alt_allele in s]
gc_select(list, alt_allele) ==
    SelectSeq(Enumerate(list), LAMBDA i : gc_contains(alt_allele, At(list, i)))

get_gc_indices_for_alt_allele(num, alt) ==
    LET err == gc_sanity_check(num, alt)
    IN  IF err # "" THEN ValueError(err)
        ELSE LET allele_idx == gc_allele_idx(alt.val)
                 built == gc_outer_loop(num.val, 0, <<>>)
             IN  IF built.raised \/ OutOfTable(allele_idx) THEN IndexError
                 ELSE LET alt_allele == At(generic_allele_lookup_table, allele_idx)
                      IN  [status |-> "returned",
                           indices |-> gc_select(built.list, alt_allele),
                           pairs |-> built.list,
                           alt_allele |-> alt_allele]

(* ---------------- get_limited_gc_indices_for_alt_allele ---------------- *)

\* the sanity check for input arguments of the limited lookup
limited_sanity_check(num, alt) ==
    IF (~isinstance_int(num)) \/ num.val < 2
        THEN "num_alleles must be integer >= 2"
    ELSE IF (~isinstance_int(alt)) \/ alt.val < 0
        THEN "alt_idx must be non negative integer"
    ELSE IF alt.val > num.val - 2
        THEN "alt_idx must be <= (num_alleles - 2)"
    ELSE ""

\* the alt allele looked up without the + 1
limited_allele_idx_low(alt) == alt

\* allele_idx = alt_idx + 1
limited_allele_idx(alt) == alt + 1

\* the pair label left as table[i] + table[j], without the reversal
limited_ref_alt_pair_unreversed(i, j) ==
    At(generic_allele_lookup_table, i) \o At(generic_allele_lookup_table, j)

\* table[i] + table[j], then reversed
limited_ref_alt_pair(i, j) ==
    Reversed(At(generic_allele_lookup_table, i) \o At(generic_allele_lookup_table, j))

\* for j in range(i+1)
RECURSIVE limited_inner_loop(_, _, _)
limited_inner_loop(i, j, cur) ==
    IF j >= i + 1 THEN [raised |-> FALSE, list |-> cur]
    ELSE IF OutOfTable(i) \/ OutOfTable(j) THEN [raised |-> TRUE, list |-> cur]
    ELSE limited_inner_loop(i, j + 1, Append(cur, limited_ref_alt_pair(i, j)))

\* for i in range(num_alleles)
RECURSIVE limited_outer_loop(_, _, _)
limited_outer_loop(num, i, cur) ==
    IF i >= num THEN [raised |-> FALSE, list |-> cur]
    ELSE LET row == limited_inner_loop(i, 0, cur)
         IN  IF row.raised THEN row ELSE limited_outer_loop(num, i + 1, row.list)

\* the heterozygous label built as alt_allele + 'A'
limited_pairs_swapped(alt_allele) ==
    <<alt_allele \o LITERAL_A, alt_allele \o alt_allele>>

\* the two labels looked for: 'A' + alt_allele and alt_allele * 2
limited_pairs(alt_allele) ==
    <<LITERAL_A \o alt_allele, alt_allele \o alt_allele>>

\* [i for i,pair in enumerate(cur_pairs_list) if pair in limited_pairs]
limited_select(list, targets) ==
    SelectSeq(Enumerate(list), LAMBDA i : InList(At(list, i), targets))

get_limited_gc_indices_for_alt_allele(num, alt) ==
    LET err == limited_sanity_check(num, alt)
    IN  IF err # "" THEN ValueError(err)
        ELSE LET allele_idx == limited_allele_idx(alt.val)
                 built == limited_outer_loop(num.val, 0, <<>>)
             IN  IF built.raised \/ OutOfTable(allele_idx) THEN IndexError
                 ELSE LET alt_allele == At(generic_allele_lookup_table, allele_idx)
                      IN  [status |-> "returned",
                           indices |-> limited_select(built.list,
                                                      limited_pairs(alt_allele)),
                           pairs |-> built.list,
                           alt_allele |-> alt_allele]

(* ------------------------------ the calls ------------------------------ *)

\* a caller about to infer the allele count of a GC list of some length
InitInfer ==
    /\ gc_len \in 0..MaxGcLen
    /\ infer_out = Pending
    /\ num_alleles = IntVal(2)
    /\ alt_idx = IntVal(0)
    /\ full_out = Pending
    /\ limited_out = Pending

\* a caller about to look up an alt allele with some pair of arguments
InitLookup ==
    /\ gc_len = 3
    /\ infer_out = Pending
    /\ num_alleles \in ArgValues
    /\ alt_idx \in ArgValues
    /\ full_out = Pending
    /\ limited_out = Pending

CallInfer ==
    /\ infer_out = Pending
    /\ infer_out' = get_num_of_alleles_from_gc(gc_len)
    /\ UNCHANGED <<gc_len, num_alleles, alt_idx, full_out, limited_out>>

CallFull ==
    /\ full_out = Pending
    /\ full_out' = get_gc_indices_for_alt_allele(num_alleles, alt_idx)
    /\ UNCHANGED <<gc_len, infer_out, num_alleles, alt_idx, limited_out>>

CallLimited ==
    /\ limited_out = Pending
    /\ limited_out' = get_limited_gc_indices_for_alt_allele(num_alleles, alt_idx)
    /\ UNCHANGED <<gc_len, infer_out, num_alleles, alt_idx, full_out>>

NextInfer == CallInfer

NextLookup == CallFull \/ CallLimited

SpecInfer == InitInfer /\ [][NextInfer]_vars

SpecLookup == InitLookup /\ [][NextLookup]_vars

(* ------------------------- vocabulary of the claims -------------------- *)

\* the k-th triangular number 1 + 2 + ... + k
Tri(k) == (k * (k + 1)) \div 2

IsTriangular(n) == \E k \in 1..n : Tri(k) = n

\* the number of allele labels: alleleCount ranges over 2..AlphabetSize
AlphabetSize == ORD_STOP - ORD_FIRST

\* the character code of the label of allele index i
Letter(i) == ORD_FIRST + i

\* an integer in Python's sense (isinstance(v, int)): bool counts, True being 1
IsInteger(v) == v.kind \in {"int", "bool"}

\* the arguments are what the validation documents as valid
ValidArgs ==
    /\ IsInteger(num_alleles) /\ num_alleles.val >= 2
    /\ IsInteger(alt_idx) /\ alt_idx.val >= 0
    /\ alt_idx.val <= num_alleles.val - 2

\* out is the outcome of a lookup that returned, with alleleCount in 2..26
ReturnedInRange(out) ==
    /\ out.status = "returned"
    /\ num_alleles.val \in 2..AlphabetSize

Elems(seq) == {seq[k] : k \in 1..Len(seq)}

StrictlyAscending(seq) == \A k \in 1..(Len(seq) - 1) : seq[k] < seq[k + 1]

(* ------------------------------- claims -------------------------------- *)

\* C1: for every k >= 1, get_num_of_alleles_from_gc(k*(k+1)/2) returns k,
\* k = 1 (length 1) included
C1_InferReturnsK ==
    infer_out.status = "returned" =>
        \A k \in 1..MaxGcLen : gc_len = Tri(k) => infer_out.value = IntVal(k)

\* C2: for every positive length that is not a triangular number,
\* get_num_of_alleles_from_gc returns None (no allele count, no error)
C2_NonTriangularReturnsNone ==
    (infer_out # Pending /\ gc_len >= 1 /\ ~IsTriangular(gc_len)) =>
        infer_out = [status |-> "returned", value |-> NoneVal]

C2_Witness ==
    /\ gc_len = 7
    /\ infer_out.status = "returned"
    /\ infer_out.value = NoneVal

\* C3: for alleleCount in 2..26 the full lookup returns, strictly ascending,
\* exactly the positions whose label has the letter of allele altIndex+1 as
\* its first or second character; (4, 2) gives [6,7,8,9]
C3_FullLookupSelectsLetter ==
    ReturnedInRange(full_out) =>
        LET letter == Letter(alt_idx.val + 1)
            pairs == full_out.pairs
        IN  /\ StrictlyAscending(full_out.indices)
            /\ Elems(full_out.indices) =
                   {p \in 0..(Len(pairs) - 1) :
                       At(pairs, p)[1] = letter \/ At(pairs, p)[2] = letter}
            /\ (num_alleles = IntVal(4) /\ alt_idx = IntVal(2)) =>
                   full_out.indices = <<6, 7, 8, 9>>

C3_Witness ==
    /\ num_alleles = IntVal(4)
    /\ alt_idx = IntVal(1)
    /\ full_out.status = "returned"
    /\ full_out.indices = <<3, 4, 5, 8>>

\* C4: for alleleCount in 2..26 the limited lookup returns exactly two
\* positions, [a(a+1)/2, a(a+1)/2 + a] with a = altIndex+1: the position of
\* 'A' + target letter, then that of the target letter twice; (4, 1) gives [3,5]
C4_LimitedLookupTwoPositions ==
    ReturnedInRange(limited_out) =>
        LET a == alt_idx.val + 1
            idx == limited_out.indices
        IN  /\ idx = <<Tri(a), Tri(a) + a>>
            /\ At(limited_out.pairs, idx[1]) = <<Letter(0), Letter(a)>>
            /\ At(limited_out.pairs, idx[2]) = <<Letter(a), Letter(a)>>
            /\ (num_alleles = IntVal(4) /\ alt_idx = IntVal(1)) => idx = <<3, 5>>

C4_Witness ==
    /\ num_alleles = IntVal(4)
    /\ alt_idx = IntVal(1)
    /\ limited_out.status = "returned"
    /\ limited_out.indices = <<3, 5>>

\* C5: for valid arguments with alleleCount in 2..26, every position the
\* limited lookup returns is among those the full lookup returns
C5_LimitedWithinFull ==
    (ReturnedInRange(full_out) /\ ReturnedInRange(limited_out)) =>
        Elems(limited_out.indices) \subseteq Elems(full_out.indices)

C5_Witness ==
    /\ num_alleles = IntVal(AlphabetSize)
    /\ alt_idx = IntVal(1)
    /\ full_out.status = "returned"
    /\ limited_out.status = "returned"
    /\ Len(limited_out.indices) = 2

\* C6: both lookups end in the invalid-argument error whenever alleleCount is
\* not an integer >= 2, or altIndex is not a non-negative integer, or
\* altIndex > alleleCount - 2; and they reject the same argument pairs
C6_InvalidArgumentsRejected ==
    LET invalid ==
            \/ ~(IsInteger(num_alleles) /\ num_alleles.val >= 2)
            \/ ~(IsInteger(alt_idx) /\ alt_idx.val >= 0)
            \/ alt_idx.val > num_alleles.val - 2
    IN  /\ (invalid /\ full_out # Pending) => full_out.status = "ValueError"
        /\ (invalid /\ limited_out # Pending) => limited_out.status = "ValueError"
        /\ (full_out # Pending /\ limited_out # Pending) =>
               (full_out.status = "ValueError" <=> limited_out.status = "ValueError")

C6_Witness ==
    /\ num_alleles = IntVal(3)
    /\ alt_idx = IntVal(2)
    /\ full_out.status = "ValueError"
    /\ limited_out.status = "ValueError"

\* C7: every call of a lookup whose arguments pass the validation (which sets
\* no upper bound on alleleCount) returns a position list
C7_ValidatedCallsReturn ==
    ValidArgs =>
        /\ full_out # Pending => full_out.status = "returned"
        /\ limited_out # Pending => limited_out.status = "returned"

\* the pair list of out has N(N+1)/2 entries, all different
PairListTriangular(out) ==
    ReturnedInRange(out) =>
        /\ Len(out.pairs) = Tri(num_alleles.val)
        /\ Cardinality(Elems(out.pairs)) = Len(out.pairs)

\* C8: for alleleCount N in 2..26 the pair list built by either lookup has
\* N(N+1)/2 entries and no label twice
C8_PairListTriangularNoDuplicates ==
    PairListTriangular(full_out) /\ PairListTriangular(limited_out)

C8_Witness ==
    /\ num_alleles = IntVal(AlphabetSize)
    /\ full_out.status = "returned"
    /\ limited_out.status = "returned"
    /\ Len(full_out.pairs) = 351
    /\ Len(limited_out.pairs) = 351

\* the entry at position i(i+1)/2 + j is letter[j] followed by letter[i]
PairListOrdered(out) ==
    ReturnedInRange(out) =>
        \A i \in 0..(num_alleles.val - 1) : \A j \in 0..i :
            /\ Tri(i) + j < Len(out.pairs)
            /\ At(out.pairs, Tri(i) + j) = <<Letter(j), Letter(i)>>

\* C9: for alleleCount in 2..26 the pair list is in the order (0,0), (1,0),
\* (1,1), (2,0), ... with the smaller-or-equal letter first, and both lookups
\* build the same list
C9_PairListOrder ==
    /\ PairListOrdered(full_out)
    /\ PairListOrdered(limited_out)
    /\ (ReturnedInRange(full_out) /\ ReturnedInRange(limited_out)) =>
           full_out.pairs = limited_out.pairs

C9_Witness ==
    /\ num_alleles = IntVal(4)
    /\ full_out.status = "returned"
    /\ limited_out.status = "returned"
    /\ limited_out.pairs =
           << <<65, 65>>, <<65, 66>>, <<66, 66>>, <<65, 67>>, <<66, 67>>,
              <<67, 67>>, <<65, 68>>, <<66, 68>>, <<67, 68>>, <<68, 68>> >>

\* C10: for alleleCount N in 2..26 the full lookup returns exactly N
\* positions: with a = altIndex+1, a(a+1)/2 .. a(a+1)/2 + a, then
\* i(i+1)/2 + a for i in a+1..N-1
C10_FullLookupReturnsN ==
    ReturnedInRange(full_out) =>
        LET a == alt_idx.val + 1
            N == num_alleles.val
        IN  full_out.indices =
                [k \in 1..N |-> IF k <= a + 1 THEN Tri(a) + (k - 1)
                                ELSE Tri(k - 1) + a]

C10_Witness ==
    /\ num_alleles = IntVal(AlphabetSize)
    /\ alt_idx = IntVal(0)
    /\ full_out.status = "returned"
    /\ Len(full_out.indices) = AlphabetSize

====
